---- MODULE Spec2Model ----
(***************************************************************************)
(* A model of YUKA's FuzzyModule (src/src/fuzzy/FuzzyModule.js): the       *)
(* registry of fuzzy linguistic variables (FLVs) and fuzzy rules, and the  *)
(* defuzzify cycle that clears every rule's consequent, evaluates every    *)
(* rule and reads a crisp value from one FLV.                              *)
(*                                                                         *)
(* FuzzyModule.js is modelled statement by statement.  Its collaborators   *)
(* (FuzzyRule, FuzzyVariable, FuzzySet, the composite terms, Logger) are   *)
(* not part of the sources at hand; they are modelled from the             *)
(* specification and kept apart in the section "Collaborators".            *)
(*                                                                         *)
(* Degrees of membership are the integers 0..MaxDeg (k stands for          *)
(* k/MaxDeg); crisp results are exact fractions <<top, bottom>> in lowest  *)
(* terms.                                                                  *)
(***************************************************************************)
EXTENDS Integers, Sequences, FiniteSets, TLC

VARIABLES
    rules,   \* this.rules: the array of rule objects, in registration order
    flvs,    \* this.flvs: the Map, as its entries in insertion order
    dom,     \* degreeOfMembership of every FuzzySet object
    pc,      \* position of the running call ("idle": no call is running)
    call,    \* the running (or last) call: its function and arguments
    i,       \* the loop variable i of the running defuzzify call
    l,       \* the loop variable l (the cached rules.length)
    trace,   \* what the running (or last) call did to its collaborators
    ret,     \* the outcome of the last call
    pre      \* dom as it was when the running call started (dom when idle)

vars == <<rules, flvs, dom, pc, call, i, l, trace, ret, pre>>

----------------------------------------------------------------------------
(* Bounds of the model *)

\* The longest rule array the model builds.
MaxRules == 2

\* Degrees of membership are 0..MaxDeg.
MaxDeg == 2

----------------------------------------------------------------------------
(* The objects handed to the module by its caller *)

\* The FuzzySet objects (identities).
Sets == {"a", "b", "c", "d"}

\* The FuzzyVariable objects (identities) and the sets each owns.
FLVObjs == {"fIn", "fOut"}

FuzzySetsOf(flv) == IF flv = "fIn" THEN <<"a", "b">> ELSE <<"c", "d">>

\* The names FLVs are registered and looked up under.
Names == {"x", "y"}

\* The crisp values passed to fuzzify.
CrispValues == 0..MaxDeg

\* The degrees of membership.
Degrees == 0..MaxDeg

\* A FuzzySet leaf and the composite terms FuzzyAND / FuzzyOR over leaves.
Leaf(s) == [kind |-> "set", set |-> s, terms |-> <<>>]

FuzzyAND(ts) == [kind |-> "and", set |-> "-", terms |-> ts]

FuzzyOR(ts) == [kind |-> "or", set |-> "-", terms |-> ts]

\* The FuzzyRule objects (identities).  r1 and r2 share the consequent c,
\* r2 has a composite consequent, r3 reads c, which r1 and r2 write.
RuleObjs == {"r1", "r2", "r3"}

Antecedent(r) ==
    CASE r = "r1" -> FuzzyAND(<<Leaf("a"), Leaf("b")>>)
      [] r = "r2" -> FuzzyOR(<<Leaf("a"), Leaf("b")>>)
      [] OTHER    -> Leaf("c")

Consequent(r) ==
    CASE r = "r1" -> Leaf("c")
      [] r = "r2" -> FuzzyAND(<<Leaf("c"), Leaf("d")>>)
      [] OTHER    -> Leaf("d")

----------------------------------------------------------------------------
(* JavaScript values and built-ins used by FuzzyModule.js *)

\* undefined, as a rule or FLV reference.
Undefined == "undefined"

\* An argument that was not passed (the type of defuzzify( name )).
Omitted == -1

Range(s) == {s[k] : k \in DOMAIN s}

Max(S) == CHOOSE m \in S : \A n \in S : n <= m

Min(S) == CHOOSE m \in S : \A n \in S : m <= n

\* Array.prototype.indexOf: the 0-based index of the first element that is
\* the given object, -1 when there is none.
IndexOf(arr, x) ==
    IF \E k \in DOMAIN arr : arr[k] = x
    THEN Min({k \in DOMAIN arr : arr[k] = x}) - 1
    ELSE -1

\* Array.prototype.splice( start, deleteCount ) without insertions: a
\* negative start counts from the end, and both are clamped to the array.
Splice(arr, start, deleteCount) ==
    LET len  == Len(arr)
        from == IF start < 0 THEN Max({len + start, 0}) ELSE Min({start, len})
        cnt  == Min({Max({deleteCount, 0}), len - from})
    IN  SubSeq(arr, 1, from) \o SubSeq(arr, from + cnt + 1, len)

\* arr[ k ] for a 0-based k: undefined outside the array.
At(arr, k) == IF k + 1 \in DOMAIN arr THEN arr[k + 1] ELSE Undefined

\* Map.prototype.has / get / set / delete on the entries in insertion order.
MapHas(m, key) == \E k \in DOMAIN m : m[k].key = key

\* A lookup that falls back to the first entry.
MapGetFirst(m, key) ==
    IF MapHas(m, key)
    THEN m[Min({k \in DOMAIN m : m[k].key = key})].value
    ELSE IF m = <<>> THEN Undefined ELSE m[1].value

MapGet(m, key) ==
    IF MapHas(m, key)
    THEN m[Min({k \in DOMAIN m : m[k].key = key})].value
    ELSE Undefined

\* A set that appends without looking for the key.
MapSetAppend(m, key, value) == Append(m, [key |-> key, value |-> value])

MapSet(m, key, value) ==
    IF MapHas(m, key)
    THEN [k \in DOMAIN m |->
            IF m[k].key = key THEN [key |-> key, value |-> value] ELSE m[k]]
    ELSE Append(m, [key |-> key, value |-> value])

MapDelete(m, key) == SelectSeq(m, LAMBDA e : e.key # key)

----------------------------------------------------------------------------
(* Collaborators: FuzzySet, the composite terms, FuzzyRule, FuzzyVariable *)

\* A getDegreeOfMembership() of a composite term that answers with the
\* degree of its first child.
GetDegreeOfMembershipFirst(d, t) ==
    IF t.kind = "set" THEN d[t.set] ELSE d[t.terms[1].set]

\* getDegreeOfMembership(): a set's stored degree, the minimum over an
\* AND's children, the maximum over an OR's.
RECURSIVE GetDegreeOfMembership(_, _)
GetDegreeOfMembership(d, t) ==
    CASE t.kind = "set" -> d[t.set]
      [] t.kind = "and" ->
            Min({GetDegreeOfMembership(d, t.terms[k]) : k \in DOMAIN t.terms})
      [] OTHER ->
            Max({GetDegreeOfMembership(d, t.terms[k]) : k \in DOMAIN t.terms})

\* The FuzzySet leaves below a term.
RECURSIVE LeavesOf(_)
LeavesOf(t) ==
    IF t.kind = "set" THEN {t.set}
    ELSE UNION {LeavesOf(t.terms[k]) : k \in DOMAIN t.terms}

\* clearDegreeOfMembership(): every set below the term is reset to 0.
ClearDegreeOfMembership(d, t) ==
    [s \in Sets |-> IF s \in LeavesOf(t) THEN 0 ELSE d[s]]

\* updateDegreeOfMembership( value ): every set below the term keeps the
\* larger of its degree and the value.
UpdateDegreeOfMembership(d, t, value) ==
    [s \in Sets |-> IF s \in LeavesOf(t) THEN Max({d[s], value}) ELSE d[s]]

\* FuzzyRule.initConsequence() and FuzzyRule.evaluate().
InitConsequenceOf(d, r) == ClearDegreeOfMembership(d, Consequent(r))

EvaluateOf(d, r) ==
    UpdateDegreeOfMembership(d, Consequent(r),
                             GetDegreeOfMembership(d, Antecedent(r)))

\* The membership function of each set at a crisp value: a and c fall from
\* full membership at 0, b and d rise to full membership at MaxDeg.
Membership(s, x) == IF s \in {"a", "c"} THEN MaxDeg - x ELSE x

\* The representative value of each set.
RepresentativeValue(s) ==
    CASE s = "a" -> 0 [] s = "b" -> 2 [] s = "c" -> 1 [] OTHER -> 3

\* FuzzyVariable.fuzzify( value ): every owned set takes its membership.
FlvFuzzify(d, flv, x) ==
    [s \in Sets |->
        IF s \in Range(FuzzySetsOf(flv)) THEN Membership(s, x) ELSE d[s]]

RECURSIVE Gcd(_, _)
Gcd(m, n) == IF n = 0 THEN m ELSE Gcd(n, m % n)

\* The number 0 / 0 is in JavaScript.
NaN == <<0, 0>>

\* top / bottom (top >= 0, bottom >= 0) as a fraction in lowest terms; the
\* sums divided here are 0 together, and 0 / 0 is NaN.
Fraction(top, bottom) ==
    IF bottom = 0 THEN NaN
    ELSE LET g == Gcd(top, bottom) IN <<top \div g, bottom \div g>>

RECURSIVE SumOver(_, _)
SumOver(f, S) ==
    IF S = {} THEN 0
    ELSE LET x == CHOOSE y \in S : TRUE IN f[x] + SumOver(f, S \ {x})

\* FuzzyVariable.defuzzifyMaxAv(): the representative values averaged with
\* the degrees as weights.
\* When no set has a degree above 0 the result is 0.
DefuzzifyMaxAv(d, flv) ==
    LET own    == Range(FuzzySetsOf(flv))
        top    == SumOver([s \in own |-> RepresentativeValue(s) * d[s]], own)
        bottom == SumOver([s \in own |-> d[s]], own)
    IN  IF bottom = 0 THEN <<0, 1>> ELSE Fraction(top, bottom)

\* FuzzyVariable.defuzzifyCentroid(): the centroid of the pointwise maximum
\* of the clipped membership curves, over the sample points.
\* When the combined curve is 0 everywhere the result is 0.
DefuzzifyCentroid(d, flv) ==
    LET own        == Range(FuzzySetsOf(flv))
        clipped(x) == Max({Min({Membership(s, x), d[s]}) : s \in own})
        top    == SumOver([x \in CrispValues |-> x * clipped(x)], CrispValues)
        bottom == SumOver([x \in CrispValues |-> clipped(x)], CrispValues)
    IN  IF bottom = 0 THEN <<0, 1>> ELSE Fraction(top, bottom)

----------------------------------------------------------------------------
(* What a call did: the calls it made on its collaborators, in order *)

Event(ev, obj, num) == [ev |-> ev, obj |-> obj, num |-> num]

\* The calls of one kind in a trace, in order.
Only(tr, kind) == SelectSeq(tr, LAMBDA e : e.ev = kind)

\* The objects of a sequence of events.
ObjsOf(tr) == [k \in DOMAIN tr |-> tr[k].obj]

----------------------------------------------------------------------------
(* FuzzyModule *)

\* FuzzyModule.DEFUZ_TYPE
MAXAV == 0

CENTROID == 1

\* The types a caller passes: the two known ones, an unknown one, none.
Types == {MAXAV, CENTROID, 2, Omitted}

NoCall == [fn |-> "none", name |-> "-", rule |-> "-", flv |-> "-", num |-> 0]

This == [kind |-> "this", val |-> <<0, 1>>]

Value(v) == [kind |-> "value", val |-> v]

TypeError == [kind |-> "throw", val |-> <<0, 1>>]

Pending == [kind |-> "pending", val |-> <<0, 1>>]

\* A call that completed and returned undefined.
ReturnedUndefined == [kind |-> "undefined", val |-> <<0, 1>>]

\* constructor()
Init ==
    /\ rules = <<>>
    /\ flvs = <<>>
    /\ dom = [s \in Sets |-> 0]
    /\ pc = "idle"
    /\ call = NoCall
    /\ i = 0
    /\ l = 0
    /\ trace = <<>>
    /\ ret = This
    /\ pre = [s \in Sets |-> 0]

\* addFLV( name, flv ): this.flvs.set( name, flv ); call.num keeps whether
\* the name was a key before.
addFLV(name, flv) ==
    /\ pc = "idle"
    /\ flvs' = MapSet(flvs, name, flv)
    /\ call' = [NoCall EXCEPT !.fn = "addFLV", !.name = name, !.flv = flv,
                              !.num = IF MapHas(flvs, name) THEN 1 ELSE 0]
    /\ trace' = <<>>
    /\ ret' = This
    /\ pre' = dom
    /\ UNCHANGED <<rules, dom, pc, i, l>>

\* removeFLV( name ): this.flvs.delete( name ), whose result (whether the
\* key was there) is dropped by the code and kept in call.num.
removeFLV(name) ==
    /\ pc = "idle"
    /\ flvs' = MapDelete(flvs, name)
    /\ call' = [NoCall EXCEPT !.fn = "removeFLV", !.name = name,
                              !.num = IF MapHas(flvs, name) THEN 1 ELSE 0]
    /\ trace' = <<>>
    /\ ret' = This
    /\ pre' = dom
    /\ UNCHANGED <<rules, dom, pc, i, l>>

\* addRule( rule ); the model stops adding at MaxRules rules.
addRule(rule) ==
    /\ pc = "idle"
    /\ Len(rules) < MaxRules
    /\ rules' = Append(rules, rule)
    /\ call' = [NoCall EXCEPT !.fn = "addRule", !.rule = rule]
    /\ trace' = <<>>
    /\ ret' = This
    /\ pre' = dom
    /\ UNCHANGED <<flvs, dom, pc, i, l>>

\* removeRule( rule ): index = rules.indexOf( rule ); rules.splice( index, 1 )
removeRule(rule) ==
    /\ pc = "idle"
    /\ LET index == IndexOf(rules, rule)
       IN  /\ rules' = Splice(rules, index, 1)
           /\ call' = [NoCall EXCEPT !.fn = "removeRule", !.rule = rule,
                                     !.num = index]
    /\ trace' = <<>>
    /\ ret' = This
    /\ pre' = dom
    /\ UNCHANGED <<flvs, dom, pc, i, l>>

\* A fuzzify that fuzzifies the value with every registered FLV.
fuzzifyAll(name, value) ==
    /\ pc = "idle"
    /\ ret' = IF MapGet(flvs, name) = Undefined THEN TypeError ELSE This
    /\ trace' = [k \in DOMAIN flvs |-> Event("fuzzify", flvs[k].value, value)]
    /\ dom' = [s \in Sets |->
                IF \E k \in DOMAIN flvs : s \in Range(FuzzySetsOf(flvs[k].value))
                THEN Membership(s, value)
                ELSE dom[s]]
    /\ call' = [NoCall EXCEPT !.fn = "fuzzify", !.name = name, !.num = value]
    /\ pre' = dom'
    /\ UNCHANGED <<rules, flvs, pc, i, l>>

\* fuzzify( name, value ): flv = this.flvs.get( name ); flv.fuzzify( value ).
\* Calling a method on undefined throws a TypeError.
fuzzify(name, value) ==
    /\ pc = "idle"
    /\ LET flv == MapGet(flvs, name)
       IN  IF flv = Undefined
           THEN /\ ret' = TypeError
                /\ trace' = <<>>
                /\ dom' = dom
           ELSE /\ ret' = This
                /\ trace' = <<Event("fuzzify", flv, value)>>
                /\ dom' = FlvFuzzify(dom, flv, value)
    /\ call' = [NoCall EXCEPT !.fn = "fuzzify", !.name = name, !.num = value]
    /\ pre' = dom'
    /\ UNCHANGED <<rules, flvs, pc, i, l>>

\* defuzzify( name, type = MAXAV ): the default parameter.
DefaultTypeCentroid(type) == IF type = Omitted THEN CENTROID ELSE type

DefaultType(type) == IF type = Omitted THEN MAXAV ELSE type

\* A defuzzify that does not call _initConsequences().
defuzzifyNoInit(name, type) ==
    /\ pc = "idle"
    /\ pc' = "eval"
    /\ call' = [NoCall EXCEPT !.fn = "defuzzify", !.name = name, !.num = type]
    /\ i' = 0
    /\ l' = Len(rules)
    /\ trace' = <<>>
    /\ ret' = Pending
    /\ pre' = dom
    /\ UNCHANGED <<rules, flvs, dom>>

\* The call of defuzzify, up to the first loop of _initConsequences():
\* i = 0, l = rules.length.
defuzzify(name, type) ==
    /\ pc = "idle"
    /\ pc' = "init"
    /\ call' = [NoCall EXCEPT !.fn = "defuzzify", !.name = name, !.num = type]
    /\ i' = 0
    /\ l' = Len(rules)
    /\ trace' = <<>>
    /\ ret' = Pending
    /\ pre' = dom
    /\ UNCHANGED <<rules, flvs, dom>>

\* The loop conditions and the step of the two loops.
InitLoopCondShort(k, n) == k < n - 1

InitLoopCond(k, n) == k < n

EvalLoopCondShort(k, n) == k < n - 1

EvalLoopCondLong(k, n) == k <= n

EvalLoopCond(k, n) == k < n

\* An increment that visits every other rule.
NextIndexTwo(k) == k + 2

NextIndex(k) == k + 1

\* A TypeError leaves the call: the locals are gone.
Throw ==
    /\ pc' = "idle"
    /\ ret' = TypeError
    /\ i' = 0
    /\ l' = 0
    /\ pre' = dom

\* One round of the loop of _initConsequences():
\* rule = rules[ i ]; rule.initConsequence(); i ++
initConsequences ==
    /\ pc = "init"
    /\ InitLoopCond(i, l)
    /\ LET rule == At(rules, i)
       IN  IF rule = Undefined
           THEN /\ Throw
                /\ UNCHANGED <<dom, trace>>
           ELSE /\ dom' = InitConsequenceOf(dom, rule)
                /\ trace' = Append(trace, Event("initConsequence", rule, 0))
                /\ i' = NextIndex(i)
                /\ pre' = pre
                /\ UNCHANGED <<pc, l, ret>>
    /\ UNCHANGED <<rules, flvs, call>>

\* The loop of _initConsequences() ends; defuzzify goes on to its own loop:
\* i = 0, l = rules.length.
initConsequencesDone ==
    /\ pc = "init"
    /\ ~InitLoopCond(i, l)
    /\ pc' = "eval"
    /\ i' = 0
    /\ l' = Len(rules)
    /\ UNCHANGED <<rules, flvs, dom, call, trace, ret, pre>>

\* A round that clears the rule's consequent itself before evaluating it.
evaluateMerged ==
    /\ pc = "eval"
    /\ EvalLoopCond(i, l)
    /\ LET rule == At(rules, i)
       IN  IF rule = Undefined
           THEN /\ Throw
                /\ UNCHANGED <<dom, trace>>
           ELSE /\ dom' = EvaluateOf(InitConsequenceOf(dom, rule), rule)
                /\ trace' = Append(trace,
                      Event("evaluate", rule,
                            GetDegreeOfMembership(dom, Antecedent(rule))))
                /\ i' = NextIndex(i)
                /\ pre' = pre
                /\ UNCHANGED <<pc, l, ret>>
    /\ UNCHANGED <<rules, flvs, call>>

\* One round of the loop of defuzzify: rule = rules[ i ]; rule.evaluate(); i ++
evaluate ==
    /\ pc = "eval"
    /\ EvalLoopCond(i, l)
    /\ LET rule == At(rules, i)
       IN  IF rule = Undefined
           THEN /\ Throw
                /\ UNCHANGED <<dom, trace>>
           ELSE /\ dom' = EvaluateOf(dom, rule)
                /\ trace' = Append(trace,
                      Event("evaluate", rule,
                            GetDegreeOfMembership(dom, Antecedent(rule))))
                /\ i' = NextIndex(i)
                /\ pre' = pre
                /\ UNCHANGED <<pc, l, ret>>
    /\ UNCHANGED <<rules, flvs, call>>

\* The loop of defuzzify ends: on to flv = flvs.get( name ) and the switch.
evaluateDone ==
    /\ pc = "eval"
    /\ ~EvalLoopCond(i, l)
    /\ pc' = "switch"
    /\ UNCHANGED <<rules, flvs, dom, call, i, l, trace, ret, pre>>

\* Logger.warn( 'YUKA.FuzzyModule: Unknown defuzzification method:', type )
Warning(type) ==
    Event("warn", "YUKA.FuzzyModule: Unknown defuzzification method:", type)

\* value = flv.<method>(); return value.  On undefined the call throws.
CallAndReturn(tr, method) ==
    LET flv == MapGet(flvs, call.name)
    IN  /\ IF flv = Undefined
           THEN /\ ret' = TypeError
                /\ trace' = tr
           ELSE /\ ret' = Value(IF method = "defuzzifyCentroid"
                                THEN DefuzzifyCentroid(dom, flv)
                                ELSE DefuzzifyMaxAv(dom, flv))
                /\ trace' = Append(tr, Event(method, flv, 0))
        /\ pc' = "idle"
        /\ i' = 0
        /\ l' = 0
        /\ pre' = dom
        /\ UNCHANGED <<rules, flvs, dom, call>>

\* A MAXAV case that defuzzifies the first FLV of the map, whatever the name.
caseMaxAvFirst ==
    /\ pc = "switch"
    /\ DefaultType(call.num) = MAXAV
    /\ ret' = IF flvs = <<>> THEN TypeError
              ELSE Value(DefuzzifyMaxAv(dom, flvs[1].value))
    /\ trace' = IF flvs = <<>> THEN trace
                ELSE Append(trace, Event("defuzzifyMaxAv", flvs[1].value, 0))
    /\ pc' = "idle"
    /\ i' = 0
    /\ l' = 0
    /\ pre' = dom
    /\ UNCHANGED <<rules, flvs, dom, call>>

\* case FuzzyModule.DEFUZ_TYPE.MAXAV
caseMaxAv ==
    /\ pc = "switch"
    /\ DefaultType(call.num) = MAXAV
    /\ CallAndReturn(trace, "defuzzifyMaxAv")

\* case FuzzyModule.DEFUZ_TYPE.CENTROID
caseCentroid ==
    /\ pc = "switch"
    /\ DefaultType(call.num) = CENTROID
    /\ CallAndReturn(trace, "defuzzifyCentroid")

\* A default case that falls back to Centroid.
caseDefaultCentroid ==
    /\ pc = "switch"
    /\ DefaultType(call.num) \notin {MAXAV, CENTROID}
    /\ CallAndReturn(Append(trace, Warning(call.num)), "defuzzifyCentroid")

\* default: the warning, then MaxAv as the fallback
caseDefault ==
    /\ pc = "switch"
    /\ DefaultType(call.num) \notin {MAXAV, CENTROID}
    /\ CallAndReturn(Append(trace, Warning(call.num)), "defuzzifyMaxAv")

\* The steps of a running defuzzify call.
\* The methods a base FuzzyTerm has.
FuzzyTermMethods ==
    {"clearDegreeOfMembership", "getDegreeOfMembership",
     "updateDegreeOfMembership"}

\* A base FuzzyTerm whose methods are abstract: calling one throws.
FuzzyTermCallAbstract(method) == TypeError

\* term.method() on a base FuzzyTerm: the call of a method the object does
\* not have throws; the three methods of the base class do nothing.
FuzzyTermCall(method) ==
    IF method \in FuzzyTermMethods THEN ReturnedUndefined ELSE TypeError

\* The FuzzyTerm tests 'should exist': const term = new FuzzyTerm();
\* expect( term ).respondTo( method ); term.method().  A failed expectation
\* throws as well.
shouldExist(method) ==
    /\ pc = "idle"
    /\ call' = [NoCall EXCEPT !.fn = "shouldExist", !.name = method]
    /\ ret' = IF method \in FuzzyTermMethods
              THEN FuzzyTermCall(method)
              ELSE TypeError
    /\ trace' = <<>>
    /\ pre' = dom
    /\ UNCHANGED <<rules, flvs, dom, pc, i, l>>

Step ==
    \/ initConsequences
    \/ initConsequencesDone
    \/ evaluate
    \/ evaluateDone
    \/ caseMaxAv
    \/ caseCentroid
    \/ caseDefault

Next ==
    \/ \E name \in Names, flv \in FLVObjs : addFLV(name, flv)
    \/ \E name \in Names : removeFLV(name)
    \/ \E rule \in RuleObjs : addRule(rule)
    \/ \E rule \in RuleObjs : removeRule(rule)
    \/ \E name \in Names, value \in CrispValues : fuzzify(name, value)
    \/ \E name \in Names, type \in Types : defuzzify(name, type)
    \/ \E method \in FuzzyTermMethods : shouldExist(method)
    \/ Step

Spec == Init /\ [][Next]_vars

\* A call runs to completion: JavaScript never suspends a running function.
FairSpec == Spec /\ WF_vars(Step)

----------------------------------------------------------------------------
(* Properties *)

DefuzzifyDone == pc = "idle" /\ call.fn = "defuzzify"

InitCalls == Only(trace, "initConsequence")

EvaluateCalls == Only(trace, "evaluate")

DefuzzCalls ==
    SelectSeq(trace,
              LAMBDA e : e.ev \in {"defuzzifyMaxAv", "defuzzifyCentroid"})

\* C1: within a defuzzify call, whenever evaluate() has been called on some
\* rule, initConsequence() was called before that on every rule of the rule
\* sequence.
C1_InitBeforeEvaluate ==
    \A k \in DOMAIN trace :
        trace[k].ev = "evaluate" =>
            \A r \in Range(rules) :
                \E j \in 1..(k - 1) :
                    trace[j].ev = "initConsequence" /\ trace[j].obj = r

\* A call in the middle of its evaluate loop over two different rules.
C1_Witness ==
    /\ pc = "eval"
    /\ i = 1
    /\ Len(rules) = 2
    /\ rules[1] # rules[2]
    /\ Len(EvaluateCalls) = 1

\* C2 as stated: a defuzzify call initializes and evaluates every rule
\* object of the rule sequence exactly once, evaluating in registration
\* order.
C2_Original ==
    DefuzzifyDone =>
        /\ \A r \in Range(rules) :
              /\ Cardinality({k \in DOMAIN trace :
                    trace[k].ev = "initConsequence" /\ trace[k].obj = r}) = 1
              /\ Cardinality({k \in DOMAIN trace :
                    trace[k].ev = "evaluate" /\ trace[k].obj = r}) = 1
        /\ ObjsOf(EvaluateCalls) = rules

\* C2 amended: a defuzzify call calls initConsequence() once per entry of
\* the rule sequence and then evaluate() once per entry, both in
\* registration order; a rule object registered twice is initialized and
\* evaluated twice.
C2_OncePerEntry ==
    DefuzzifyDone =>
        /\ ObjsOf(InitCalls) = rules
        /\ ObjsOf(EvaluateCalls) = rules
        /\ ObjsOf(SelectSeq(trace,
              LAMBDA e : e.ev \in {"initConsequence", "evaluate"}))
              = rules \o rules

\* A finished call over a rule sequence that holds one rule object twice.
C2_Witness ==
    /\ DefuzzifyDone
    /\ Len(rules) = 2
    /\ rules[1] = rules[2]
    /\ Len(EvaluateCalls) = 2

\* C3: a defuzzify call on a registered name with type MAXAV, CENTROID or
\* none calls exactly one defuzzification method, after the rule cycle, on
\* the FLV registered under the name, and returns its value: MaxAv for
\* MAXAV or no type, Centroid for CENTROID.
C3_Dispatch ==
    (DefuzzifyDone /\ MapHas(flvs, call.name)
        /\ call.num \in {MAXAV, CENTROID, Omitted}) =>
        LET flv == flvs[CHOOSE k \in DOMAIN flvs :
                          flvs[k].key = call.name].value
        IN  /\ Len(DefuzzCalls) = 1
            /\ trace[Len(trace)] = DefuzzCalls[1]
            /\ DefuzzCalls[1].obj = flv
            /\ ret.kind = "value"
            /\ IF call.num = CENTROID
               THEN /\ DefuzzCalls[1].ev = "defuzzifyCentroid"
                    /\ ret.val = DefuzzifyCentroid(dom, flv)
               ELSE /\ DefuzzCalls[1].ev = "defuzzifyMaxAv"
                    /\ ret.val = DefuzzifyMaxAv(dom, flv)

\* A call without a type returned a MaxAv value that differs from the
\* Centroid value, with two FLVs registered.
C3_Witness ==
    /\ DefuzzifyDone
    /\ call.num = Omitted
    /\ Len(flvs) = 2
    /\ flvs[1].value # flvs[2].value
    /\ ret.kind = "value"
    /\ ret.val # DefuzzifyCentroid(dom, MapGet(flvs, call.name))
    /\ Len(rules) > 0

UnknownType == call.num \notin {MAXAV, CENTROID, Omitted}

\* What a warning carries: its text arguments and its other arguments.
TextsOf(w) == {w.obj}

\* C4 as stated: with an unknown type, defuzzify on a registered name runs
\* the rule cycle, emits exactly one warning that carries the name and the
\* requested type, and returns the MaxAv value of the named FLV.
C4_Original ==
    (DefuzzifyDone /\ MapHas(flvs, call.name) /\ UnknownType) =>
        /\ ret = Value(DefuzzifyMaxAv(dom, MapGet(flvs, call.name)))
        /\ ObjsOf(EvaluateCalls) = rules
        /\ Len(Only(trace, "warn")) = 1
        /\ Only(trace, "warn")[1].num = call.num
        /\ call.name \in TextsOf(Only(trace, "warn")[1])

\* C4 amended: with an unknown type, defuzzify on a registered name runs
\* the rule cycle, emits exactly one warning, which carries the fixed text
\* 'YUKA.FuzzyModule: Unknown defuzzification method:' and the requested
\* type but not the name, and returns the MaxAv value of the named FLV,
\* calling no other defuzzification method.
C4_UnknownTypeFallsBack ==
    (DefuzzifyDone /\ MapHas(flvs, call.name) /\ UnknownType) =>
        LET flv == flvs[CHOOSE k \in DOMAIN flvs :
                          flvs[k].key = call.name].value
        IN  /\ ret = Value(DefuzzifyMaxAv(dom, flv))
            /\ ObjsOf(InitCalls) = rules
            /\ ObjsOf(EvaluateCalls) = rules
            /\ Len(Only(trace, "warn")) = 1
            /\ Only(trace, "warn")[1].num = call.num
            /\ TextsOf(Only(trace, "warn")[1]) =
                  {"YUKA.FuzzyModule: Unknown defuzzification method:"}
            /\ call.name \notin TextsOf(Only(trace, "warn")[1])
            /\ DefuzzCalls = <<Event("defuzzifyMaxAv", flv, 0)>>

\* A call with an unknown type returned a MaxAv value that differs from the
\* Centroid value, after a cycle over two rules.
C4_Witness ==
    /\ DefuzzifyDone
    /\ UnknownType
    /\ ret.kind = "value"
    /\ ret.val # DefuzzifyCentroid(dom, MapGet(flvs, call.name))
    /\ Len(EvaluateCalls) = 2

\* C5: fuzzify and defuzzify called with a name that is no key of the FLV
\* mapping throw: they neither return normally nor produce a crisp value,
\* and no FLV is fuzzified or defuzzified.
C5_UnregisteredNameThrows ==
    (pc = "idle" /\ call.fn \in {"fuzzify", "defuzzify"}
        /\ \A k \in DOMAIN flvs : flvs[k].key # call.name) =>
        /\ ret = TypeError
        /\ DefuzzCalls = <<>>
        /\ Only(trace, "fuzzify") = <<>>

\* A defuzzify call that threw although another name is registered.
C5_Witness ==
    /\ DefuzzifyDone
    /\ ret.kind = "throw"
    /\ flvs # <<>>
    /\ Len(EvaluateCalls) > 0

\* C6: removeRule called with a rule that is not in the rule sequence
\* leaves the rule sequence unchanged.
C6_RemoveAbsentRuleKeepsRules ==
    [][\A rule \in RuleObjs :
          (removeRule(rule) /\ rule \notin Range(rules)) => rules' = rules]_vars

KeysUnique(m) == \A j, k \in DOMAIN m : m[j].key = m[k].key => j = k

\* The FLV found under a name: the value of the entry with that key.
Lookup(m, name) ==
    IF \E k \in DOMAIN m : m[k].key = name
    THEN m[CHOOSE k \in DOMAIN m : m[k].key = name].value
    ELSE Undefined

\* C7: the FLV mapping holds at most one entry per name; addFLV( n, f )
\* makes f the FLV found under n and changes no other name; removeFLV( n )
\* unregisters n and changes no other name, and changes nothing when n was
\* not registered; no other step changes the mapping.  So the FLV found
\* under a name is the one of the last addFLV for it that no removeFLV
\* followed.
C7_LastWriteWins ==
    /\ [](KeysUnique(flvs))
    /\ [][/\ \A n \in Names, f \in FLVObjs :
              addFLV(n, f) =>
                  /\ Lookup(flvs', n) = f
                  /\ \A m \in Names \ {n} : Lookup(flvs', m) = Lookup(flvs, m)
          /\ \A n \in Names :
              removeFLV(n) =>
                  /\ Lookup(flvs', n) = Undefined
                  /\ \A m \in Names \ {n} : Lookup(flvs', m) = Lookup(flvs, m)
                  /\ (Lookup(flvs, n) = Undefined => flvs' = flvs)
          /\ (call'.fn \notin {"addFLV", "removeFLV"}) => flvs' = flvs]_vars

\* addFLV has just replaced the FLV of a name while another name is
\* registered.
C7_Witness ==
    /\ call.fn = "addFLV"
    /\ call.num = 1
    /\ Len(flvs) = 2
    /\ MapGet(flvs, call.name) = call.flv
    /\ flvs[1].value # flvs[2].value

\* The fuzzy sets that are (part of) the consequent of a rule of a sequence.
ConsequentSets(rs) == UNION {LeavesOf(Consequent(rs[k])) : k \in DOMAIN rs}

\* C8: after a defuzzify cycle, the degree of every set that is a consequent
\* of a rule of the rule sequence is the maximum of the antecedent degrees
\* that the rules targeting the set were evaluated with.
C8_OrAccumulate ==
    DefuzzifyDone =>
        \A s \in ConsequentSets(rules) :
            LET fired == {EvaluateCalls[k].num : k \in
                    {j \in DOMAIN EvaluateCalls :
                        s \in LeavesOf(Consequent(EvaluateCalls[j].obj))}}
            IN  fired # {} /\ dom[s] = Max(fired)

\* A cycle in which the second rule wrote a smaller degree into a set than
\* the first one had, and the larger one stayed.
C8_Witness ==
    /\ DefuzzifyDone
    /\ Len(EvaluateCalls) = 2
    /\ EvaluateCalls[2].num < EvaluateCalls[1].num
    /\ "c" \in LeavesOf(Consequent(EvaluateCalls[1].obj))
    /\ "c" \in LeavesOf(Consequent(EvaluateCalls[2].obj))
    /\ dom["c"] = EvaluateCalls[1].num

\* _initConsequences() as a whole: every rule's consequent cleared, in order.
RECURSIVE InitConsequences(_, _)
InitConsequences(rs, d) ==
    IF rs = <<>> THEN d
    ELSE InitConsequences(Tail(rs), InitConsequenceOf(d, Head(rs)))

\* The loop of defuzzify as a whole: every rule evaluated, in order.
RECURSIVE EvaluateAll(_, _)
EvaluateAll(rs, d) ==
    IF rs = <<>> THEN d
    ELSE EvaluateAll(Tail(rs), EvaluateOf(d, Head(rs)))

\* The rule cycle of one defuzzify call of a module with rule sequence rs.
Cycle(rs, d) == EvaluateAll(rs, InitConsequences(rs, d))

\* The value defuzzify returns from degrees d for a name and a type.
Crisp(d, name, type) ==
    IF type = CENTROID THEN DefuzzifyCentroid(d, Lookup(flvs, name))
    ELSE DefuzzifyMaxAv(d, Lookup(flvs, name))

\* The orders a rule sequence can be registered in.
Orders(rs) ==
    {[k \in DOMAIN rs |-> rs[p[k]]] :
        p \in {q \in [DOMAIN rs -> DOMAIN rs] :
                  \A j, k \in DOMAIN rs : q[j] = q[k] => j = k}}

\* No rule's antecedent reads a set that is another rule's consequent.
NoChaining(rs) ==
    \A j, k \in DOMAIN rs :
        rs[j] # rs[k] =>
            LeavesOf(Antecedent(rs[j])) \cap LeavesOf(Consequent(rs[k])) = {}

\* C9: when no rule's antecedent reads another rule's consequent, the
\* degrees a defuzzify call leaves, and the value it is about to return,
\* are those a module with the same rules registered in any other order
\* gets from the same degrees.
C9_OrderIndependent ==
    (pc = "switch" /\ NoChaining(rules)) =>
        \A rs \in Orders(rules) :
            /\ Cycle(rs, pre) = dom
            /\ Lookup(flvs, call.name) # Undefined =>
                  Crisp(Cycle(rs, pre), call.name, call.num)
                      = Crisp(dom, call.name, call.num)

\* C9 without its condition: order independence for every rule sequence.
C9_Unconditional ==
    pc = "switch" => \A rs \in Orders(rules) : Cycle(rs, pre) = dom

\* A cycle over two different rules that wrote different degrees into the
\* set they share, ready to return a value.
C9_Witness ==
    /\ pc = "switch"
    /\ NoChaining(rules)
    /\ Len(rules) = 2
    /\ rules[1] # rules[2]
    /\ "c" \in ConsequentSets(<<rules[1]>>) \cap ConsequentSets(<<rules[2]>>)
    /\ EvaluateCalls[1].num # EvaluateCalls[2].num
    /\ MapHas(flvs, call.name)
    /\ pre # dom

\* C10: a defuzzify call on a registered name returns a value, and each of
\* its two loops visits at most as many rules as the rule sequence held
\* when the call started.
C10_DefuzzifyTerminates ==
    /\ [](pc \in {"init", "eval", "switch"} =>
            /\ l = Len(rules)
            /\ i <= l
            /\ Len(InitCalls) <= l
            /\ Len(EvaluateCalls) <= l)
    /\ (pc = "init" /\ MapHas(flvs, call.name))
          ~> (DefuzzifyDone /\ ret.kind = "value")

\* A call on a registered name has visited every rule in both loops.
C10_Witness ==
    /\ pc = "switch"
    /\ MapHas(flvs, call.name)
    /\ Len(rules) = MaxRules
    /\ Len(InitCalls) = MaxRules
    /\ Len(EvaluateCalls) = MaxRules

\* C11: defuzzify( name, MAXAV ) on an FLV all of whose sets have degree 0
\* after the rule cycle returns 0 (and returns: no error, no NaN).
C11_ZeroDegreesGiveZero ==
    (DefuzzifyDone /\ Lookup(flvs, call.name) # Undefined
        /\ call.num \in {MAXAV, Omitted}
        /\ \A s \in Range(FuzzySetsOf(Lookup(flvs, call.name))) : dom[s] = 0)
    => ret = Value(<<0, 1>>)

\* A MAXAV call on the output FLV returned 0 after a cycle in which every
\* rule was evaluated with an antecedent of degree 0, while the sets of the
\* other registered FLV have degrees above 0.
C11_Witness ==
    /\ DefuzzifyDone
    /\ call.num = MAXAV
    /\ Lookup(flvs, call.name) = "fOut"
    /\ Len(flvs) = 2
    /\ dom["c"] = 0 /\ dom["d"] = 0
    /\ dom["a"] > 0
    /\ EvaluateCalls # <<>>
    /\ \A k \in DOMAIN EvaluateCalls : EvaluateCalls[k].num = 0
    /\ ret = Value(<<0, 1>>)

\* The degrees of the children of a composite term.
ChildDegrees(d, t) ==
    {GetDegreeOfMembership(d, t.terms[k]) : k \in DOMAIN t.terms}

\* C12: the degree a FuzzyOR answers with is the maximum of its children's
\* degrees and the degree a FuzzyAND answers with is the minimum: it is the
\* degree of one of the children, no child of an OR has a larger one and no
\* child of an AND a smaller one.  Stated on the degree every rule with a
\* composite antecedent was evaluated with.
C12_OrIsMaxAndIsMin ==
    \A k \in DOMAIN EvaluateCalls :
        LET t    == Antecedent(EvaluateCalls[k].obj)
            v    == EvaluateCalls[k].num
            kids == ChildDegrees(dom, t)
        IN  /\ t.kind = "or"  => (v \in kids /\ \A c \in kids : c <= v)
            /\ t.kind = "and" => (v \in kids /\ \A c \in kids : v <= c)

\* One cycle evaluated the AND rule and the OR rule over children of
\* different degrees, the OR with the degree of its second child.
C12_Witness ==
    /\ DefuzzifyDone
    /\ Len(EvaluateCalls) = 2
    /\ Antecedent(EvaluateCalls[1].obj).kind = "and"
    /\ Antecedent(EvaluateCalls[2].obj).kind = "or"
    /\ dom["a"] < dom["b"]
    /\ EvaluateCalls[1].num = dom["a"]
    /\ EvaluateCalls[2].num = dom["b"]

AfterRemoveRule(rs, rule) == Splice(rs, IndexOf(rs, rule), 1)

\* The degrees d with the sets of S back at 0.
Zeroed(d, S) == [s \in Sets |-> IF s \in S THEN 0 ELSE d[s]]

\* C14: the result of defuzzify depends only on the registered rules and
\* the fuzzified input degrees, never on degrees an earlier cycle wrote,
\* those of rules removed since included: when a cycle has written its
\* degrees and one of its rules is removed, the next defuzzify returns
\* the value it would if the sets the finished cycle wrote were at 0.
C14_EarlierCyclesNeverInfluence ==
    pc = "switch" =>
        \A rule \in Range(rules) :
            LET rs    == AfterRemoveRule(rules, rule)
                fresh == Zeroed(dom, ConsequentSets(rules))
            IN  \A name \in Names, type \in {MAXAV, CENTROID} :
                    Lookup(flvs, name) # Undefined =>
                        Crisp(Cycle(rs, dom), name, type)
                            = Crisp(Cycle(rs, fresh), name, type)

\* The fuzzy sets the antecedents of a rule sequence read.
AntecedentSets(rs) == UNION {LeavesOf(Antecedent(rs[k])) : k \in DOMAIN rs}

\* No set is both read by an antecedent and written as a consequent.
NoDualRole(rs) == AntecedentSets(rs) \cap ConsequentSets(rs) = {}

\* The degrees are those a defuzzify cycle over the rule sequence leaves,
\* whatever degrees the consequent sets had before that cycle (a cycle
\* writes no other set).
LeftByCycle(rs, d) ==
    \E z \in [ConsequentSets(rs) -> Degrees] :
        d = Cycle(rs, [s \in Sets |->
                          IF s \in ConsequentSets(rs) THEN z[s] ELSE d[s]])

\* C15: defuzzify is repeatable when no set is both an antecedent input and
\* a consequent.  Every defuzzify on a registered name returns the value
\* its FLV computes from the degrees the call leaves; and a call that
\* starts from the degrees a defuzzify cycle over the same rules left (no
\* fuzzify, add or remove in between) leaves every degree as it found it,
\* so that it returns what the call before it returned for the same name
\* and type.
C15_Repeatable ==
    [][(pc = "switch" /\ pc' = "idle" /\ Lookup(flvs, call.name) # Undefined)
        => /\ ret' = Value(Crisp(dom', call.name, call.num))
           /\ (NoDualRole(rules) /\ LeftByCycle(rules, pre))
                => (dom' = pre /\ ret' = Value(Crisp(pre, call.name, call.num)))
      ]_vars

\* A second cycle over two rules is about to return: it started from
\* degrees only a cycle over these rules leaves (c = d = MaxDeg is no
\* result of fuzzify) and has cleared and rewritten them.
C15_Witness ==
    /\ pc = "switch"
    /\ rules = <<"r1", "r2">>
    /\ NoDualRole(rules)
    /\ LeftByCycle(rules, pre)
    /\ pre["c"] = MaxDeg /\ pre["d"] = MaxDeg
    /\ Lookup(flvs, call.name) = "fOut"
    /\ Len(InitCalls) = 2 /\ Len(EvaluateCalls) = 2
    /\ dom = pre

\* C16: a defuzzify call with an unregistered FLV name fails before
\* initConsequence or evaluate has run on any rule, and leaves the degree of
\* membership of every fuzzy set as it was before the call.
C16_UnregisteredNameFailsFirst ==
    (call.fn = "defuzzify" /\ Lookup(flvs, call.name) = Undefined) =>
        /\ InitCalls = <<>>
        /\ EvaluateCalls = <<>>
        /\ dom = pre

\* The fuzzy sets of the FLV registered under a name; none when there is no
\* such FLV.
SetsUnder(m, name) ==
    IF Lookup(m, name) = Undefined THEN {}
    ELSE Range(FuzzySetsOf(Lookup(m, name)))

\* C17: the registries change only by their own mutators.  A step of
\* fuzzify or defuzzify, failing or not, leaves the rule sequence and the
\* FLV mapping unchanged; addFLV and removeFLV leave the rule sequence
\* unchanged; addRule and removeRule leave the FLV mapping unchanged; and
\* fuzzify( name, value ) calls fuzzify( value ) of the FLV registered under
\* name and nothing else: no rule is initialized or evaluated and no degree
\* of a set of another FLV changes.
C17_RegistriesFrame ==
    [][/\ call'.fn \in {"fuzzify", "defuzzify"} =>
              (rules' = rules /\ flvs' = flvs)
       /\ call'.fn \in {"addFLV", "removeFLV"} => rules' = rules
       /\ call'.fn \in {"addRule", "removeRule"} => flvs' = flvs
       /\ call'.fn = "fuzzify" =>
              /\ pc' = "idle"
              /\ trace' = IF Lookup(flvs, call'.name) = Undefined THEN <<>>
                          ELSE <<Event("fuzzify", Lookup(flvs, call'.name),
                                       call'.num)>>
              /\ \A s \in Sets \ SetsUnder(flvs, call'.name) :
                    dom'[s] = dom[s]
      ]_vars

\* fuzzify has just run on the input FLV of a module with rules and a
\* second FLV whose set c holds a degree that this fuzzify would not have
\* given it.
C17_Witness ==
    /\ call.fn = "fuzzify"
    /\ ret = This
    /\ rules # <<>>
    /\ Len(flvs) = 2
    /\ Lookup(flvs, call.name) = "fIn"
    /\ \E k \in DOMAIN flvs : flvs[k].value = "fOut"
    /\ trace = <<Event("fuzzify", "fIn", call.num)>>
    /\ dom["a"] = Membership("a", call.num)
    /\ dom["c"] > 0
    /\ dom["c"] # Membership("c", call.num)

\* C18: removeRule( rule ) with a rule of the rule sequence removes exactly
\* its first occurrence: the sequence is one shorter, the other entries keep
\* their order and a later duplicate stays; addRule( rule ) appends at the
\* end; and the length is the number of addRule calls minus the number of
\* removals of a rule that was there: no other step changes the length.
C18_FirstOccurrenceAndLength ==
    [][/\ \A rule \in RuleObjs :
            (removeRule(rule) /\ rule \in Range(rules)) =>
                \E k \in DOMAIN rules :
                    /\ rules[k] = rule
                    /\ \A j \in 1..(k - 1) : rules[j] # rule
                    /\ rules' = SubSeq(rules, 1, k - 1)
                                  \o SubSeq(rules, k + 1, Len(rules))
       /\ \A rule \in RuleObjs :
            addRule(rule) => rules' = Append(rules, rule)
       /\ (~ \E rule \in RuleObjs :
                \/ addRule(rule)
                \/ removeRule(rule) /\ rule \in Range(rules))
            => Len(rules') = Len(rules)
      ]_vars

\* The part of C18 about a rule that is in the sequence, and about addRule.
C18_PresentRuleRemovedOnce ==
    [][/\ \A rule \in RuleObjs :
            (removeRule(rule) /\ rule \in Range(rules)) =>
                \E k \in DOMAIN rules :
                    /\ rules[k] = rule
                    /\ \A j \in 1..(k - 1) : rules[j] # rule
                    /\ rules' = SubSeq(rules, 1, k - 1)
                                  \o SubSeq(rules, k + 1, Len(rules))
       /\ \A rule \in RuleObjs :
            addRule(rule) => rules' = Append(rules, rule)
      ]_vars

====
